---------------------------- MODULE Spec2Model ----------------------------
(***************************************************************************)
(* The trace-context framing codec of contrib/go-nsq (utils.go): inject    *)
(* frames a message body and appends the gob-encoded carrier of the span   *)
(* context, extract takes such a frame apart again.                        *)
(*                                                                         *)
(* Bytes are the naturals 0..255, a byte slice is a sequence of bytes.     *)
(* A Go value that may be nil is a record with a field "nil".              *)
(***************************************************************************)
EXTENDS Naturals, Integers, Sequences, FiniteSets, TLC

(* ------------------------------ bounds -------------------------------- *)

\* Longest message body a publisher hands to inject.
MaxBody == 2

\* Largest trace or span identifier a span carries (identifiers are 0..MaxID).
MaxID == 2

\* Most buffers the pool's New function allocates in one run.
MaxBufs == 3

\* Most bytes of spare capacity behind the slice handed to extract.
MaxSlack == 1

\* Most calls of the producer's wrappers in one run.
MaxCalls == 2

(* --------------------------- input domains ---------------------------- *)

\* The byte values message bodies are made of.
BodyBytes == {0, 7}

RECURSIVE SeqsUpTo(_, _)
\* All sequences over S of length at most n.
SeqsUpTo(S, n) ==
    IF n = 0 THEN {<<>>}
    ELSE LET shorter == SeqsUpTo(S, n - 1)
         IN  shorter \cup {Append(s, x) : s \in {t \in shorter : Len(t) = n - 1}, x \in S}

Bodies == SeqsUpTo(BodyBytes, MaxBody)

\* A span context: its trace and span identifiers (uint64 in the code).
IDs == 0..MaxID
Contexts == [traceID : IDs, spanID : IDs]

\* A nil ddtrace.SpanContext, and a non-nil one.
NilCtx == [nil |-> TRUE, traceID |-> 0, spanID |-> 0]
SomeCtx(t, s) == [nil |-> FALSE, traceID |-> t, spanID |-> s]

\* A nil []byte, and a non-nil one.
NilBytes == [nil |-> TRUE, b |-> <<>>]
SomeBytes(b) == [nil |-> FALSE, b |-> b]

NoErr == "nil"

(* ------------------------- encoding/binary ---------------------------- *)

\* binary.BigEndian.PutUint32(bsb, uint32(n)) into a fresh 4-byte slice: the
\* four low bytes of n, the conversion to uint32 dropping the rest.
PutUint32(n) ==
    << (n \div (2 ^ 24)) % 256, (n \div (2 ^ 16)) % 256, (n \div (2 ^ 8)) % 256, n % 256 >>

\* binary.BigEndian.Uint32 of the first four bytes of b, for b[1] < 128 (the
\* integers of the model checker end at 2^31 - 1).
Uint32(b) == b[1] * (2 ^ 24) + b[2] * (2 ^ 16) + b[3] * (2 ^ 8) + b[4]

\* 4 + int(binary.BigEndian.Uint32(b)) > m, for 4 <= m < 2^31 and a 64-bit int.
DeclaresMoreThan(b, m) == b[1] >= 128 \/ Uint32(b) > m - 4

\* b[lo:hi] of Go, lo and hi counted from 0, for 0 <= lo <= hi <= Len(b).
Slice(b, lo, hi) == SubSeq(b, lo + 1, hi)

(* ----------------------- strconv on identifiers ----------------------- *)

RECURSIVE FormatUint(_)
\* strconv.FormatUint(n, 10) as the bytes of the decimal digits.
FormatUint(n) ==
    IF n < 10 THEN << 48 + n >>
    ELSE Append(FormatUint(n \div 10), 48 + (n % 10))

IsDigit(c) == c >= 48 /\ c <= 57

RECURSIVE DigitsValue(_)
DigitsValue(s) ==
    IF s = <<>> THEN 0
    ELSE 10 * DigitsValue(SubSeq(s, 1, Len(s) - 1)) + (s[Len(s)] - 48)

\* strconv.ParseUint(s, 10, 64): fails on the empty string and on a non-digit.
ParseUint(s) ==
    IF s = <<>> \/ \E i \in 1..Len(s) : ~IsDigit(s[i])
    THEN [ok |-> FALSE, v |-> 0]
    ELSE [ok |-> TRUE, v |-> DigitsValue(s)]

(* ------------------- tracer.TextMapCarrier and gob -------------------- *)

\* A carrier maps keys to values. A key is one byte here, a value a string of
\* bytes. The keys the tracer's propagator writes and reads:
KeyTraceID == 116
KeyParentID == 112
\* A key of another propagation format, which this tracer does not read.
KeyOther == 98

EmptyCarrier == [k \in {} |-> <<>>]

\* The i-th smallest element of S, counted from 0.
NthSmallest(S, i) == CHOOSE x \in S : Cardinality({y \in S : y < x}) = i

RECURSIVE KeyOrder(_, _)
\* Go ranges over a map in an unspecified order: seed picks the order.
KeyOrder(keys, seed) ==
    IF keys = {} THEN <<>>
    ELSE LET n == Cardinality(keys)
             k == NthSmallest(keys, seed % n)
         IN  <<k>> \o KeyOrder(keys \ {k}, seed \div n)

\* The orders a map of at most two keys can be ranged over.
MapSeeds == 0..1

\* The first byte of a gob stream that carries a map[string]string.
GobMapType == 14

RECURSIVE GobEntries(_, _)
\* The entries of carrier c in the order ord: key, length of value, value.
GobEntries(c, ord) ==
    IF ord = <<>> THEN <<>>
    ELSE << ord[1], Len(c[ord[1]]) >> \o c[ord[1]] \o GobEntries(c, Tail(ord))

\* gob.NewEncoder(buf).Encode(carri): the bytes written to buf. The stream is
\* the type, the length of the message, and the message: the number of entries
\* and the entries.
GobEncode(c, seed) ==
    LET ord     == KeyOrder(DOMAIN c, seed)
        message == << Len(ord) >> \o GobEntries(c, ord)
    IN  << GobMapType, Len(message) >> \o message

RECURSIVE GobParseEntries(_, _, _)
\* Reads n entries from message p into carrier acc; the message must end with
\* the last entry.
GobParseEntries(p, n, acc) ==
    IF n = 0 THEN [ok |-> p = <<>>, carrier |-> acc]
    ELSE IF Len(p) < 2 \/ Len(p) < 2 + p[2] THEN [ok |-> FALSE, carrier |-> acc]
    ELSE GobParseEntries(SubSeq(p, 3 + p[2], Len(p)), n - 1,
                         (p[1] :> SubSeq(p, 3, 2 + p[2])) @@ acc)

\* gob.NewDecoder(bytes.NewBuffer(b)).Decode(&carri): fails on a stream of
\* another type, on a stream that ends before its message does, and on a
\* message that is no list of entries. Bytes after the message are not read.
GobDecode(b) ==
    IF Len(b) < 2 \/ b[1] # GobMapType \/ Len(b) < 2 + b[2] \/ b[2] = 0
    THEN [ok |-> FALSE, carrier |-> EmptyCarrier]
    ELSE LET message == SubSeq(b, 3, 2 + b[2])
             r       == GobParseEntries(Tail(message), message[1], EmptyCarrier)
         IN  IF r.ok THEN r ELSE [ok |-> FALSE, carrier |-> EmptyCarrier]

(* ------------------------------ tracer -------------------------------- *)

ErrInvalidSpanContext == "ErrInvalidSpanContext"
ErrSpanContextCorrupted == "ErrSpanContextCorrupted"
ErrSpanContextNotFound == "ErrSpanContextNotFound"

\* tracer.Inject(ctx, carrier): writes the identifiers of ctx into a carrier;
\* it refuses a context without a trace or a span identifier.
TracerInject(ctx) ==
    IF ctx.traceID = 0 \/ ctx.spanID = 0
    THEN [err |-> ErrInvalidSpanContext, carrier |-> EmptyCarrier]
    ELSE [err |-> NoErr,
          carrier |-> (KeyTraceID :> FormatUint(ctx.traceID))
                      @@ (KeyParentID :> FormatUint(ctx.spanID))]

\* The identifier carrier c holds under key k: 0 when the key is missing.
CarrierID(c, k) ==
    IF k \in DOMAIN c THEN ParseUint(c[k]) ELSE [ok |-> TRUE, v |-> 0]

\* tracer.Extract(carrier): rebuilds the context from the keys it knows. A
\* value that is no number, and a missing or zero identifier, is an error,
\* returned with a nil context.
TracerExtract(c) ==
    LET t == CarrierID(c, KeyTraceID)
        s == CarrierID(c, KeyParentID)
    IN  IF ~t.ok \/ ~s.ok THEN [ctx |-> NilCtx, err |-> ErrSpanContextCorrupted]
        ELSE IF t.v = 0 \/ s.v = 0 THEN [ctx |-> NilCtx, err |-> ErrSpanContextNotFound]
        ELSE [ctx |-> SomeCtx(t.v, s.v), err |-> NoErr]

(* --------------------------- inject, extract -------------------------- *)

\* What inject returns: ([]byte, error).
InjectResult(frame, err) == [frame |-> frame, err |-> err]

\* A body framed without its length prefix being big-endian.
FrameLittleEndian(body) ==
    LET n == Len(body)
    IN  << n % 256, (n \div (2 ^ 8)) % 256, (n \div (2 ^ 16)) % 256, (n \div (2 ^ 24)) % 256 >>
        \o body

\* bts: the 4-byte big-endian length of body, then body.
Frame(body) == PutUint32(Len(body)) \o body

\* A test of the span identifier where the code tests the trace identifier.
NoSpanID(span) == span.spanID = 0

\* span.Context().TraceID() == 0: the span belongs to no trace.
NoTrace(span) == span.traceID = 0

\* An error returned together with the frame built so far.
InjectFailedWithFrame(bts, err) == InjectResult(SomeBytes(bts), err)

\* return nil, err: bts is the frame built so far, which is dropped.
InjectFailed(bts, err) == InjectResult(NilBytes, err)

\* The encoded carrier copied to offset 4, where the body starts, instead of
\* behind the body; the rest of withspn stays zero.
WithSpanOverBody(bts, buf) ==
    SubSeq(bts, 1, 4) \o buf \o [j \in 1..(Len(bts) - 4) |-> 0]

\* withspn: bts, then the bytes of the buffer the carrier was encoded into.
WithSpan(bts, buf) == bts \o buf

\* inject(span, body): span is the span's context; seed is the order in which
\* the encoder ranges over the carrier. The buffer getBuf hands out is empty,
\* so buf.Bytes() is what the encoder wrote.
inject(span, body, seed) ==
    LET bts == Frame(body)
    IN  IF NoTrace(span) THEN InjectResult(SomeBytes(bts), NoErr)
        ELSE LET inj == TracerInject(span)
             IN  IF inj.err # NoErr THEN InjectFailed(bts, inj.err)
                 ELSE LET buf == GobEncode(inj.carrier, seed)
                      IN  InjectResult(SomeBytes(WithSpan(bts, buf)), NoErr)

ErrTooSmall == "length of message body is too small"
ErrGob == "gob: decode error"

\* What extract does: it returns (ddtrace.SpanContext, []byte, error), or it
\* panics at a line of utils.go; logged holds the lines it wrote to the standard
\* logger, a printed number being the four bytes it was read from.
Returned(ctx, body, err, logged) ==
    [panic |-> FALSE, line |-> 0, ctx |-> ctx, body |-> body, err |-> err, logged |-> logged]
Panicked(line, logged) ==
    [panic |-> TRUE, line |-> line, ctx |-> NilCtx, body |-> NilBytes, err |-> NoErr,
     logged |-> logged]

\* A short input handed back to the caller with the error.
TooSmallKeepsInput(body) == Returned(NilCtx, SomeBytes(body), ErrTooSmall, <<>>)

\* return nil, nil, errors.New(...): the input is shorter than a length prefix.
TooSmall(body) == Returned(NilCtx, NilBytes, ErrTooSmall, <<>>)

\* The de-framed body returned where the code returns its whole input.
UndecodedKeepsBody(body, msgbody, logged) ==
    Returned(NilCtx, SomeBytes(msgbody), ErrGob, logged)

\* return nil, body, err: the bytes behind the message body are no carrier.
Undecoded(body, msgbody, logged) == Returned(NilCtx, SomeBytes(body), ErrGob, logged)

\* The whole input returned where the code returns the de-framed body.
WithContextKeepsInput(x, body, msgbody, logged) ==
    Returned(x.ctx, SomeBytes(body), x.err, logged)

\* return spnctx, msgbody, err with x what tracer.Extract returned.
WithContext(x, body, msgbody, logged) == Returned(x.ctx, SomeBytes(msgbody), x.err, logged)

\* extract(body), for a slice body of capacity capacity >= Len(body). The slice
\* expression body[4 : 4+bs] panics when 4+bs exceeds the capacity, body[4+bs:]
\* when 4+bs exceeds the length.
extract(body, capacity) ==
    IF Len(body) < 4 THEN TooSmall(body)
    ELSE LET logged == << SubSeq(body, 1, 4) >>
         IN  IF DeclaresMoreThan(body, capacity) THEN Panicked(77, logged)
             ELSE IF 4 + Uint32(body) = Len(body)
                  THEN Returned(NilCtx, SomeBytes(Slice(body, 4, Len(body))), NoErr, logged)
             ELSE IF DeclaresMoreThan(body, Len(body)) THEN Panicked(83, logged)
             ELSE LET bs      == Uint32(body)
                      msgbody == Slice(body, 4, 4 + bs)
                      dec     == GobDecode(Slice(body, 4 + bs, Len(body)))
                  IN  IF ~dec.ok THEN Undecoded(body, msgbody, logged)
                      ELSE WithContext(TracerExtract(dec.carrier), body, msgbody, logged)

(* ------------------- one message, publisher to consumer ---------------- *)

VARIABLES
    pc,         \* "start", "failed" (inject returned an error), "sent", "received"
    sent,       \* the call to inject: whether it was made, its span and body
    injected,   \* what inject returned
    wire,       \* the bytes in flight to the consumer
    intact,     \* the bytes in flight are the frame inject returned
    extracted,  \* what extract did with the bytes it received
    log         \* the lines written to the standard logger

codecVars == << pc, sent, injected, wire, intact, extracted, log >>

\* Concurrent calls of inject and the buffer pool bfp they share.
VARIABLES
    gor,        \* per calling goroutine: its place in inject and its locals
    bufs,       \* the contents of every bytes.Buffer allocated so far
    bfp         \* the buffers that lie in the pool

poolVars == << gor, bufs, bfp >>

\* The traced producer of producer.go.
VARIABLES
    wr,         \* the wrapper that is running: its place, arguments and locals
    spans,      \* the spans the tracer has started, in the order of their start
    nsqd,       \* the calls the wrapped nsq.Producer has received, with their results
    rets        \* the errors the wrappers have returned

producerVars == << wr, spans, nsqd, rets >>

\* The profiler of utils_test.go.
VARIABLES
    prev,       \* p.prev: the parsed profile kept for each profile type
    ran,        \* the most recent call of runProfile: its inputs, locals and results
    lastGood    \* for each type, the data of the most recent deltaProfile call
                \* that returned a profile

profilerVars == << prev, ran, lastGood >>

\* What the codec and the pool leave alone.
restVars == << producerVars, profilerVars >>

vars == << codecVars, poolVars, restVars >>

\* Carriers of publishers that use another tracer or none of its keys.
ForeignCarriers ==
    { EmptyCarrier,
      (KeyOther :> FormatUint(1)),
      (KeyTraceID :> FormatUint(1)),
      (KeyTraceID :> <<120>>) @@ (KeyParentID :> FormatUint(1)) }

\* Frames of other publishers: any declared length, body and carrier.
ForeignFrames ==
    { prefix \o b \o GobEncode(c, 0) :
        prefix \in {PutUint32(n) : n \in 0..MaxBody} \cup { <<255, 255, 255, 255>> },
        b \in Bodies, c \in ForeignCarriers }

CodecInit ==
    /\ pc = "start"
    /\ sent = [made |-> FALSE, span |-> [traceID |-> 0, spanID |-> 0], body |-> <<>>]
    /\ injected = InjectResult(NilBytes, NoErr)
    /\ wire = <<>>
    /\ intact = FALSE
    /\ extracted = Returned(NilCtx, NilBytes, NoErr, <<>>)
    /\ log = <<>>

\* The publisher frames body with inject and publishes the frame; when inject
\* returns an error nothing is published.
Publish(span, body, seed) ==
    /\ pc = "start"
    /\ sent' = [made |-> TRUE, span |-> span, body |-> body]
    /\ injected' = inject(span, body, seed)
    /\ IF injected'.err # NoErr
       THEN /\ pc' = "failed"
            /\ UNCHANGED << wire, intact >>
       ELSE /\ pc' = "sent"
            /\ wire' = injected'.frame.b
            /\ intact' = TRUE
    /\ UNCHANGED << extracted, log >>
    /\ UNCHANGED << poolVars, restVars >>

\* Another publisher's frame is in flight.
Forge(frame) ==
    /\ pc = "start"
    /\ pc' = "sent"
    /\ wire' = frame
    /\ intact' = FALSE
    /\ UNCHANGED << sent, injected, extracted, log >>
    /\ UNCHANGED << poolVars, restVars >>

\* The transport loses the last byte in flight.
Truncate ==
    /\ pc = "sent"
    /\ wire # <<>>
    /\ wire' = SubSeq(wire, 1, Len(wire) - 1)
    /\ intact' = FALSE
    /\ UNCHANGED << pc, sent, injected, extracted, log >>
    /\ UNCHANGED << poolVars, restVars >>

\* The consumer calls extract on what it received.
Receive(slack) ==
    /\ pc = "sent"
    /\ extracted' = extract(wire, Len(wire) + slack)
    /\ log' = log \o extracted'.logged
    /\ pc' = "received"
    /\ UNCHANGED << sent, injected, wire, intact >>
    /\ UNCHANGED << poolVars, restVars >>

(* ------------------- concurrent inject, shared pool ------------------- *)

\* The goroutines that call inject at the same time.
Callers == {"g1", "g2", "g3"}

\* What they pass: two spans of no trace, a span the tracer refuses and two
\* spans of different traces, an empty body and a body of one byte.
PoolContexts ==
    { [traceID |-> 0, spanID |-> 0],
      [traceID |-> 0, spanID |-> MaxID],
      [traceID |-> 1, spanID |-> 0],
      [traceID |-> 1, spanID |-> MaxID],
      [traceID |-> MaxID, spanID |-> 1] }
PoolBodies == { <<>>, <<7>> }

\* The locals of a goroutine in inject. buf is the number of the buffer it
\* holds, 0 when it holds none; a buffer's number is its index in bufs.
Idle ==
    [pc |-> "idle", span |-> [traceID |-> 0, spanID |-> 0], body |-> <<>>, bts |-> <<>>,
     carri |-> EmptyCarrier, buf |-> 0, withspn |-> <<>>,
     ret |-> InjectResult(NilBytes, NoErr)]

PoolInit ==
    /\ gor = [c \in Callers |-> Idle]
    /\ bufs = <<>>
    /\ bfp = {}

\* inject up to the call of getBuf (lines 34 to 52): it returns at once for a
\* span of no trace and when the tracer refuses the context.
Call(c, span, body) ==
    /\ gor[c].pc = "idle"
    /\ LET bts == Frame(body)
           inj == TracerInject(span)
           me  == [gor[c] EXCEPT !.span = span, !.body = body, !.bts = bts]
       IN  gor' = [gor EXCEPT ![c] =
                IF NoTrace(span)
                THEN [me EXCEPT !.pc = "done", !.ret = InjectResult(SomeBytes(bts), NoErr)]
                ELSE IF inj.err # NoErr
                THEN [me EXCEPT !.pc = "done", !.ret = InjectFailed(bts, inj.err)]
                ELSE [me EXCEPT !.pc = "getbuf", !.carri = inj.carrier]]
    /\ UNCHANGED << bufs, bfp >>
    /\ UNCHANGED << codecVars, restVars >>

\* A buffer handed out with what it held left in it.
NotReset(contents) == contents

\* buf.Reset(): the buffer is empty afterwards.
Reset(contents) == <<>>

\* getBuf: bfp.Get() takes any buffer out of the pool, or has New allocate one
\* (Get may do so whatever lies in the pool); the buffer is reset.
GetBuf(c) ==
    /\ gor[c].pc = "getbuf"
    /\ \/ \E b \in bfp :
            /\ bfp' = bfp \ {b}
            /\ bufs' = [bufs EXCEPT ![b] = Reset(bufs[b])]
            /\ gor' = [gor EXCEPT ![c].buf = b, ![c].pc = "encode"]
       \/ /\ Len(bufs) < MaxBufs
          /\ bufs' = Append(bufs, Reset(<<>>))
          /\ gor' = [gor EXCEPT ![c].buf = Len(bufs) + 1, ![c].pc = "encode"]
          /\ UNCHANGED bfp
    /\ UNCHANGED << codecVars, restVars >>

\* gob.NewEncoder(buf).Encode(carri) writes the carrier behind what buf holds.
Encode(c, seed) ==
    /\ gor[c].pc = "encode"
    /\ bufs' = [bufs EXCEPT ![gor[c].buf] = @ \o GobEncode(gor[c].carri, seed)]
    /\ gor' = [gor EXCEPT ![c].pc = "copy"]
    /\ UNCHANGED bfp
    /\ UNCHANGED << codecVars, restVars >>

\* withspn is made and filled from bts and buf.Bytes() (lines 62 to 64).
Copy(c) ==
    /\ gor[c].pc = "copy"
    /\ gor' = [gor EXCEPT ![c].withspn = WithSpan(gor[c].bts, bufs[gor[c].buf]),
                          ![c].pc = "return"]
    /\ UNCHANGED << bufs, bfp >>
    /\ UNCHANGED << codecVars, restVars >>

\* return withspn, nil; the deferred putBuf(buf) puts the buffer into the pool.
Return(c) ==
    /\ gor[c].pc = "return"
    /\ bfp' = bfp \cup {gor[c].buf}
    /\ gor' = [gor EXCEPT ![c].ret = InjectResult(SomeBytes(gor[c].withspn), NoErr),
                          ![c].buf = 0,
                          ![c].pc = "done"]
    /\ UNCHANGED bufs
    /\ UNCHANGED << codecVars, restVars >>

\* The runtime may remove a buffer from the pool at any time.
Drop(b) ==
    /\ b \in bfp
    /\ bfp' = bfp \ {b}
    /\ UNCHANGED << gor, bufs >>
    /\ UNCHANGED << codecVars, restVars >>

(* ------------------------- the traced producer ------------------------ *)

\* The wrappers of Producer, by the name of the nsq.Producer method they wrap.
Methods ==
    { "Publish", "MultiPublish", "PublishAsync", "MultiPublishAsync", "DeferredPublish",
      "DeferredPublishAsync" }

IsMulti(m) == m \in {"MultiPublish", "MultiPublishAsync"}
IsAsync(m) == m \in {"PublishAsync", "MultiPublishAsync", "DeferredPublishAsync"}
IsDeferred(m) == m \in {"DeferredPublish", "DeferredPublishAsync"}

\* opName of each wrapper.
opName(m) ==
    CASE m = "Publish" -> "PUBLISH"
      [] m = "MultiPublish" -> "MultiPublish"
      [] m = "PublishAsync" -> "PublishAsync"
      [] m = "MultiPublishAsync" -> ""
      [] m = "DeferredPublish" -> "DeferredPublish"
      [] m = "DeferredPublishAsync" -> "DeferredPublishAsync"

\* What callers pass. body is the list of message bodies: one body for the
\* wrappers of a single message.
Topics == { "orders" }
SingleBodies == { << b >> : b \in PoolBodies }
MultiBodies == { <<>>, << <<7>> >>, << <<7>>, <<>> >> }
BodiesOf(m) == IF IsMulti(m) THEN MultiBodies ELSE SingleBodies
ArgCounts == { 0, 1 }
Delays == { 5 }
ArgsOf(m) == IF IsAsync(m) THEN ArgCounts ELSE { 0 }
DelaysOf(m) == IF IsDeferred(m) THEN Delays ELSE { 0 }

\* What the wrapped nsq.Producer returns.
ErrNotConnected == "ErrNotConnected"
WrappedErrs == { NoErr, ErrNotConnected }

RECURSIVE bodySize(_)
\* The lengths of the bodies added up.
bodySize(body) ==
    IF body = <<>> THEN 0 ELSE Len(Head(body)) + bodySize(Tail(body))

NoTags == [k \in {} |-> 0]

\* tags of each wrapper.
Tags(m, body, args, delay) ==
    ("body_count" :> Len(body)) @@ ("body_size" :> bodySize(body))
    @@ (IF IsAsync(m) THEN ("arg_count" :> args) ELSE NoTags)
    @@ (IF IsDeferred(m) THEN ("delay" :> delay) ELSE NoTags)

\* clientConfig after defaultConfig: the analytics rate is NaN unless
\* analytics are enabled.
ClientConfigs ==
    { [service |-> "nsq", rateIsNaN |-> TRUE, rate |-> 0],
      [service |-> "nsq", rateIsNaN |-> FALSE, rate |-> 1] }

\* tracer.StartSpanFromContext: a span that is not finished.
\* startSpan(topic, operation): the span of a message producer, of the
\* configured service, with the topic as its resource.
startSpan(cfg, topic, operation) ==
    [operation |-> operation, type |-> "queue", service |-> cfg.service,
     resource |-> topic,
     tags |-> IF cfg.rateIsNaN THEN NoTags ELSE ("_dd1.sr.eausr" :> cfg.rate),
     finished |-> 0, err |-> NoErr]

\* A span finished without the error of the wrapped call.
FinishWithoutError(span, err) == [span EXCEPT !.finished = @ + 1]

\* span.Finish(opts...): opts holds tracer.WithError(err) when err is not nil.
Finish(span, err) ==
    [span EXCEPT !.finished = @ + 1, !.err = IF err # NoErr THEN err ELSE @]

\* finishSpan(span, topic, operation, tags, err).
finishSpan(span, topic, operation, tags, err) ==
    Finish([span EXCEPT !.operation = operation,
                        !.tags = tags @@ span.tags,
                        !.resource = topic],
           err)

\* return err.
ReturnErr(err) == err

NoCall == [pc |-> "idle", method |-> "Publish", topic |-> "orders", body |-> <<>>,
           args |-> 0, delay |-> 0, span |-> 0, err |-> NoErr]

\* The producer NewProducer returns: no wrapper is running, the tracer has
\* started no span.
ProducerInit ==
    /\ wr \in [cfg : ClientConfigs, call : {NoCall}]
    /\ spans = <<>>
    /\ nsqd = <<>>
    /\ rets = <<>>

\* A wrapper is called and runs up to its call of the wrapped producer: it
\* sets opName and starts its span.
Enter(m, topic, body, args, delay) ==
    /\ wr.call.pc = "idle"
    /\ Len(rets) < MaxCalls
    /\ spans' = Append(spans, startSpan(wr.cfg, topic, opName(m)))
    /\ wr' = [wr EXCEPT !.call = [pc |-> "started", method |-> m, topic |-> topic,
                                  body |-> body, args |-> args, delay |-> delay,
                                  span |-> Len(spans) + 1, err |-> NoErr]]
    /\ UNCHANGED << nsqd, rets >>
    /\ UNCHANGED << codecVars, poolVars, profilerVars >>

\* The wrapped nsq.Producer method runs and returns err.
Forward(err) ==
    /\ wr.call.pc = "started"
    /\ nsqd' = Append(nsqd, [method |-> wr.call.method, topic |-> wr.call.topic,
                             body |-> wr.call.body, err |-> err,
                             open |-> { i \in 1..Len(spans) : spans[i].finished = 0 }])
    /\ wr' = [wr EXCEPT !.call.pc = "forwarded", !.call.err = err]
    /\ UNCHANGED << spans, rets >>
    /\ UNCHANGED << codecVars, poolVars, profilerVars >>

\* The rest of the wrapper: the tags, finishSpan, return err.
Leave ==
    /\ wr.call.pc = "forwarded"
    /\ LET c == wr.call
       IN /\ spans' = [spans EXCEPT ![c.span] =
                          finishSpan(@, c.topic, opName(c.method),
                                     Tags(c.method, c.body, c.args, c.delay), c.err)]
          /\ rets' = Append(rets, ReturnErr(c.err))
    /\ wr' = [wr EXCEPT !.call.pc = "idle"]
    /\ UNCHANGED nsqd
    /\ UNCHANGED << codecVars, poolVars, profilerVars >>

(* ----------------------------- the profiler ---------------------------- *)

\* The profile types, by the Name of their collector; "unknown" stands for a
\* ProfileType that is not in collectors.
ProfileTypes ==
    { "heap", "cpu", "block", "mutex", "goroutine", "goroutinewait", "metrics", "unknown" }

\* collectors[t].Filename, and "unknown" for a type that is not in collectors.
Filename(t) ==
    CASE t = "heap" -> "heap.pprof"
      [] t = "cpu" -> "cpu.pprof"
      [] t = "block" -> "block.pprof"
      [] t = "mutex" -> "mutex.pprof"
      [] t = "goroutine" -> "goroutines.pprof"
      [] t = "goroutinewait" -> "goroutineswait.pprof"
      [] t = "metrics" -> "metrics.json"
      [] OTHER -> "unknown"

\* t.collector(): Delta tells whether the collector has a Delta.
collector(t) ==
    [Name |-> t, Filename |-> Filename(t), Delta |-> t \in {"heap", "mutex", "block"}]

\* A parsed profile holds its time, its duration and one sample value.
TimesNanos == { 1, 2 }
SampleValues == { 0, 1 }
NilProf == [nil |-> TRUE]
Prof(time, duration, sample) ==
    [nil |-> FALSE, TimeNanos |-> time, DurationNanos |-> duration, Sample |-> sample]

\* The first byte of pprof data (gzip).
PprofMagic == 31

\* (*profile.Profile).Write.
WriteProf(prof) == << PprofMagic, prof.TimeNanos, prof.DurationNanos, prof.Sample >>

ErrParse == "malformed profile"

\* pprofile.ParseData.
ParseData(data) ==
    IF Len(data) = 4 /\ data[1] = PprofMagic
    THEN [prof |-> Prof(data[2], data[3], data[4]), err |-> NoErr]
    ELSE [prof |-> NilProf, err |-> ErrParse]

\* pt.Delta.Convert(a, b): the samples of b less those of a.
Convert(a, b) == [b EXCEPT !.Sample = b.Sample - a.Sample]

\* What Collect can return.
Garbage == << 0 >>
ProfileData == { WriteProf(Prof(time, 0, v)) : time \in TimesNanos, v \in SampleValues }
ErrCollect == "collect failed"
ErrNotImplemented == "profile type not implemented"
ErrConvert == "incompatible profiles"
ErrWrite == "write failed"
CollectOutcomes(t) ==
    IF t = "unknown"
    THEN { [data |-> <<>>, err |-> ErrNotImplemented] }
    ELSE { [data |-> d, err |-> NoErr] : d \in ProfileData \cup {Garbage} }
         \cup { [data |-> d, err |-> ErrCollect] : d \in {<<>>, Garbage} }

\* What Delta.Convert and Write return when deltaProfile reaches them.
LibraryOutcomes(t) ==
    IF collector(t).Delta
    THEN { [convertErr |-> NoErr, writeErr |-> NoErr],
           [convertErr |-> ErrConvert, writeErr |-> NoErr],
           [convertErr |-> NoErr, writeErr |-> ErrWrite] }
    ELSE { [convertErr |-> NoErr, writeErr |-> NoErr] }

\* A *profile, and nil.
NoProfile == [nil |-> TRUE]
Profile(name, data) == [nil |-> FALSE, name |-> name, data |-> data]

\* The map p.prev left as it was.
Forget(pv, t, currentProf) == pv

\* p.prev[t] = currentProf.
Remember(pv, t, currentProf) == [pv EXCEPT ![t] = currentProf]

\* The name of a profile without the prefix of a delta profile.
PlainName(filename) == filename

\* "delta-" + pt.Filename.
DeltaName(filename) == "delta-" \o filename

\* deltaProfile(c, t, data) with p.prev = pv; convertErr and writeErr are the
\* errors Delta.Convert and Write return when they are reached. It yields the
\* profile, the error and p.prev afterwards.
deltaProfile(pv, t, data, convertErr, writeErr) ==
    LET pt == collector(t)
        parsed == ParseData(data)
        currentProf == parsed.prof
        prevProf == pv[t]
        failed(err) == [prof |-> NoProfile, err |-> err, prev |-> pv]
        done(deltaData) ==
            [prof |-> Profile(DeltaName(pt.Filename), deltaData), err |-> NoErr,
             prev |-> Remember(pv, t, currentProf)]
    IN  IF ~pt.Delta THEN [prof |-> NoProfile, err |-> NoErr, prev |-> pv]
        ELSE IF parsed.err # NoErr THEN failed("delta prof parse: " \o parsed.err)
        ELSE IF prevProf.nil THEN done(data)
        ELSE IF convertErr # NoErr THEN failed("delta prof merge: " \o convertErr)
        ELSE IF writeErr # NoErr THEN failed("delta prof write: " \o writeErr)
        ELSE done(WriteProf(
                [Convert(prevProf, currentProf) EXCEPT
                    !.DurationNanos = currentProf.TimeNanos - prevProf.TimeNanos,
                    !.TimeNanos = currentProf.TimeNanos]))

\* runProfile(t) with p.prev = pv, when Collect returns collected. It yields
\* the profiles, the error, what deltaProfile returned, whether the collect
\* time was reported, and p.prev afterwards.
runProfile(pv, t, collected, convertErr, writeErr) ==
    LET pt == collector(t)
        delta == deltaProfile(pv, t, collected.data, convertErr, writeErr)
        profs == << Profile(pt.Filename, collected.data) >>
    IN  IF collected.err # NoErr
        THEN [profs |-> <<>>, err |-> collected.err, called |-> FALSE,
              delta |-> [prof |-> NoProfile, err |-> NoErr], timed |-> FALSE, prev |-> pv]
        ELSE IF delta.err # NoErr
        THEN [profs |-> <<>>, err |-> "delta profile error: " \o delta.err,
              called |-> TRUE, delta |-> [prof |-> delta.prof, err |-> delta.err],
              timed |-> FALSE, prev |-> delta.prev]
        ELSE [profs |-> IF delta.prof.nil THEN profs ELSE Append(profs, delta.prof),
              err |-> NoErr, called |-> TRUE,
              delta |-> [prof |-> delta.prof, err |-> delta.err], timed |-> TRUE,
              prev |-> delta.prev]

NotRun == [run |-> FALSE]

\* A profiler that has collected nothing: p.prev has no profile.
ProfilerInit ==
    /\ prev = [t \in ProfileTypes |-> NilProf]
    /\ ran = NotRun
    /\ lastGood = [t \in ProfileTypes |-> [nil |-> TRUE]]

\* p.runProfile(t).
RunProfile(t, collected, convertErr, writeErr) ==
    LET r == runProfile(prev, t, collected, convertErr, writeErr)
    IN  /\ prev' = r.prev
        /\ ran' = [run |-> TRUE, t |-> t, collected |-> collected, profs |-> r.profs,
                   err |-> r.err, called |-> r.called, delta |-> r.delta,
                   timed |-> r.timed, before |-> lastGood[t]]
        /\ lastGood' = IF r.called /\ r.delta.err = NoErr /\ ~r.delta.prof.nil
                       THEN [lastGood EXCEPT ![t] = [nil |-> FALSE, data |-> collected.data]]
                       ELSE lastGood
        /\ UNCHANGED << codecVars, poolVars, producerVars >>

NextPool ==
    \/ \E c \in Callers, span \in PoolContexts, body \in PoolBodies : Call(c, span, body)
    \/ \E c \in Callers : GetBuf(c)
    \/ \E c \in Callers, seed \in MapSeeds : Encode(c, seed)
    \/ \E c \in Callers : Copy(c)
    \/ \E c \in Callers : Return(c)
    \/ \E b \in bfp : Drop(b)

Init == CodecInit /\ PoolInit /\ ProducerInit /\ ProfilerInit

SpecPool == Init /\ [][NextPool]_vars

Next ==
    \/ \E span \in Contexts, body \in Bodies, seed \in MapSeeds : Publish(span, body, seed)
    \/ \E frame \in ForeignFrames : Forge(frame)
    \/ Truncate
    \/ \E slack \in 0..MaxSlack : Receive(slack)

Spec == Init /\ [][Next]_vars

NextProducer ==
    \/ \E m \in Methods, topic \in Topics :
          \E body \in BodiesOf(m), args \in ArgsOf(m), delay \in DelaysOf(m) :
              Enter(m, topic, body, args, delay)
    \/ \E err \in WrappedErrs : Forward(err)
    \/ Leave

SpecProducer == Init /\ [][NextProducer]_vars

NextProfiler ==
    \E t \in ProfileTypes :
        \E collected \in CollectOutcomes(t), lib \in LibraryOutcomes(t) :
            RunProfile(t, collected, lib.convertErr, lib.writeErr)

SpecProfiler == Init /\ [][NextProfiler]_vars

(* ------------------------------ claims -------------------------------- *)

\* The consumer ran extract on exactly the frame inject returned for sent.
RoundTripDone == pc = "received" /\ sent.made /\ intact

\* extract returned (context of the span, the body sent, nil).
RoundTripKeepsContext ==
    /\ ~extracted.panic
    /\ extracted.err = NoErr
    /\ extracted.body.b = sent.body
    /\ ~extracted.ctx.nil
    /\ extracted.ctx.traceID = sent.span.traceID
    /\ extracted.ctx.spanID = sent.span.spanID

C2_RoundTripWithoutContext ==
    (sent.made /\ sent.span.traceID = 0) =>
        /\ injected.err = NoErr
        /\ ~injected.frame.nil
        /\ Len(injected.frame.b) = 4 + Len(sent.body)
        /\ SubSeq(injected.frame.b, 5, Len(injected.frame.b)) = sent.body
        /\ (RoundTripDone =>
                /\ ~extracted.panic
                /\ extracted.err = NoErr
                /\ extracted.ctx.nil
                /\ ~extracted.body.nil
                /\ extracted.body.b = sent.body)

C2_Witness ==
    /\ RoundTripDone
    /\ sent.span.traceID = 0
    /\ sent.span.spanID # 0
    /\ Len(sent.body) = 2
    /\ extracted.body.b = sent.body

\* The input extract received declares a body longer than the bytes behind
\* the prefix.
DeclaresTooMuch == Len(wire) >= 4 /\ DeclaresMoreThan(wire, Len(wire))

\* C3 as stated: for an input of at least 4 bytes whose prefix N has
\* 4 + N > len(input), extract returns an error; it does not panic.
C3_InconsistentLengthRejected ==
    (pc = "received" /\ DeclaresTooMuch) => (~extracted.panic /\ extracted.err # NoErr)

\* C4: for an input of 0, 1, 2 or 3 bytes extract returns an error, a nil
\* context and a nil body.
C4_TruncationRejected ==
    (pc = "received" /\ Len(wire) < 4) =>
        /\ ~extracted.panic
        /\ extracted.err # NoErr
        /\ extracted.ctx.nil
        /\ extracted.body.nil

C4_Witness ==
    /\ pc = "received"
    /\ Len(wire) = 3
    /\ extracted.err = ErrTooSmall

HasTrailer == Len(wire) >= 4 /\ ~DeclaresMoreThan(wire, Len(wire)) /\ 4 + Uint32(wire) < Len(wire)
Trailer == Slice(wire, 4 + Uint32(wire), Len(wire))
DeclaredBody == Slice(wire, 4, 4 + Uint32(wire))

\* C6: when the bytes behind the declared body do not decode as a carrier,
\* extract returns the error, a nil context, and its whole input as the body.
C6_UndecodableTrailer ==
    (pc = "received" /\ HasTrailer /\ ~GobDecode(Trailer).ok) =>
        /\ ~extracted.panic
        /\ extracted.err # NoErr
        /\ extracted.ctx.nil
        /\ ~extracted.body.nil
        /\ extracted.body.b = wire

C6_Witness ==
    /\ pc = "received"
    /\ HasTrailer
    /\ ~GobDecode(Trailer).ok
    /\ Uint32(wire) > 0
    /\ extracted.body.b = wire

\* C7: when the bytes behind the declared body decode as a carrier from which
\* the tracer cannot rebuild a context, extract returns the error, a nil
\* context, and the declared body input[4 : 4+N].
C7_ContextNotRebuilt ==
    (/\ pc = "received"
     /\ HasTrailer
     /\ GobDecode(Trailer).ok
     /\ TracerExtract(GobDecode(Trailer).carrier).err # NoErr) =>
        /\ ~extracted.panic
        /\ extracted.err # NoErr
        /\ extracted.ctx.nil
        /\ ~extracted.body.nil
        /\ extracted.body.b = DeclaredBody

C7_Witness ==
    /\ pc = "received"
    /\ HasTrailer
    /\ GobDecode(Trailer).ok
    /\ extracted.err = ErrSpanContextCorrupted
    /\ extracted.body.b = DeclaredBody
    /\ DeclaredBody # <<>>

AloneResults(span, body) == { inject(span, body, seed) : seed \in MapSeeds }

\* C9: under every interleaving of concurrent calls of inject, a buffer has at
\* most one owner and does not lie in the pool while it is owned, it is empty
\* when its owner starts to encode into it, it is held until its bytes are
\* copied, and every call returns a frame it could return when run alone.
C9_ConcurrentEncodeSafe ==
    \A c \in Callers :
        /\ gor[c].pc \in {"encode", "copy", "return"} <=> gor[c].buf # 0
        /\ gor[c].buf # 0 =>
              /\ gor[c].buf \notin bfp
              /\ \A d \in Callers \ {c} : gor[d].buf # gor[c].buf
        /\ gor[c].pc = "encode" => bufs[gor[c].buf] = <<>>
        /\ gor[c].pc = "return" => gor[c].withspn = gor[c].bts \o bufs[gor[c].buf]
        /\ gor[c].pc = "done" => gor[c].ret \in AloneResults(gor[c].span, gor[c].body)

\* Both calls returned frames with a context, of different traces, and used
\* the same buffer one after the other.
C9_Witness ==
    /\ \A c \in Callers : gor[c].pc = "done" /\ gor[c].span.traceID # 0
    /\ gor["g1"].span # gor["g2"].span
    /\ gor["g1"].ret.frame.b # gor["g2"].ret.frame.b
    /\ Len(bufs) = 1

\* C10 as stated: no call of inject or extract writes to a log.
C10_NoLogWritten == log = <<>>

\* The call of c returned and its span had trace identifier zero.
PlainDone(c) == gor[c].pc = "done" /\ gor[c].span.traceID = 0

\* C11: two calls of inject with spans of trace identifier zero and the same
\* body return the same bytes and no error, whatever calls ran beside or
\* between them and whatever the pool holds.
C11_PlainFramesAgree ==
    \A c \in Callers, d \in Callers :
        (PlainDone(c) /\ PlainDone(d) /\ gor[c].body = gor[d].body) =>
            /\ gor[c].ret.err = NoErr
            /\ ~gor[c].ret.frame.nil
            /\ gor[c].ret = gor[d].ret

\* Two calls without a trace framed the same body, a third call encoded a
\* context, and the buffer it used lies in the pool with the carrier in it.
C11_Witness ==
    /\ PlainDone("g1") /\ PlainDone("g3")
    /\ gor["g1"].span # gor["g3"].span
    /\ gor["g1"].body = <<7>> /\ gor["g3"].body = <<7>>
    /\ gor["g1"].ret.frame.b = gor["g3"].ret.frame.b
    /\ gor["g2"].pc = "done" /\ gor["g2"].span.traceID # 0 /\ gor["g2"].ret.err = NoErr
    /\ \E b \in bfp : bufs[b] # <<>>

\* C12: every call of a wrapper starts one span before the wrapped producer
\* method runs, that span and no other is unfinished while the wrapped method
\* runs, the wrapper finishes it once afterwards, the span carries an error
\* exactly when the wrapped method returned one, and the wrapper returns the
\* error of the wrapped method.
C12_SpanLifecycle ==
    LET n == Len(spans)
        c == wr.call
    IN  /\ Len(nsqd) = IF c.pc = "started" THEN n - 1 ELSE n
        /\ Len(rets) = IF c.pc = "idle" THEN n ELSE n - 1
        /\ c.pc # "idle" => c.span = n /\ spans[n].finished = 0
        /\ \A i \in 1..Len(nsqd) : nsqd[i].open = {i}
        /\ \A i \in 1..Len(rets) :
              /\ spans[i].finished = 1
              /\ spans[i].err = nsqd[i].err
              /\ rets[i] = nsqd[i].err

C12_Witness ==
    /\ Len(rets) = 2
    /\ nsqd[1].method = "DeferredPublishAsync" /\ nsqd[1].err = ErrNotConnected
    /\ spans[1].err = ErrNotConnected /\ rets[1] = ErrNotConnected
    /\ nsqd[2].method = "MultiPublish" /\ nsqd[2].err = NoErr
    /\ spans[2].finished = 1 /\ spans[2].err = NoErr /\ rets[2] = NoErr

\* The most recent runProfile got a profile from deltaProfile.
DeltaReturned == ran.run /\ ran.called /\ ran.delta.err = NoErr /\ ~ran.delta.prof.nil

\* C13: p.prev[t] is the parsed profile of the most recent deltaProfile call
\* for t that returned a profile, and nil when there was none, so calls that
\* fail and calls for a type without Delta leave it alone; the first such call
\* for t returns the collected data as they are, every later one the current
\* profile less the one that was stored.
C13_DeltaState ==
    /\ \A t \in ProfileTypes :
          prev[t] = IF lastGood[t].nil THEN NilProf ELSE ParseData(lastGood[t].data).prof
    /\ \A t \in ProfileTypes : ~collector(t).Delta => prev[t] = NilProf
    /\ DeltaReturned =>
          IF ran.before.nil
          THEN ran.delta.prof.data = ran.collected.data
          ELSE LET a == ParseData(ran.before.data).prof
                   b == ParseData(ran.collected.data).prof
               IN  ran.delta.prof.data =
                       << PprofMagic, b.TimeNanos, b.TimeNanos - a.TimeNanos,
                          b.Sample - a.Sample >>

C13_Witness ==
    /\ DeltaReturned
    /\ ran.t = "heap"
    /\ ~ran.before.nil
    /\ ran.before.data = << PprofMagic, 1, 0, 0 >>
    /\ ran.collected.data = << PprofMagic, 2, 0, 1 >>
    /\ ran.delta.prof.data = << PprofMagic, 2, 1, 1 >>
    /\ prev["heap"] = Prof(2, 0, 1)
    /\ prev["mutex"] = Prof(1, 0, 1)

\* C14: a runProfile whose collection and delta computation did not fail
\* returns no error and, for a type without Delta, the one profile named
\* Filename that holds the collected data, for a type with Delta that profile
\* and after it one profile named "delta-" + Filename; a runProfile whose
\* collection or delta computation failed returns an error and no profiles.
C14_RunProfileShape ==
    ran.run =>
        LET plain == [nil |-> FALSE, name |-> Filename(ran.t), data |-> ran.collected.data]
        IN  IF ran.collected.err # NoErr \/ (ran.called /\ ran.delta.err # NoErr)
            THEN ran.err # NoErr /\ ran.profs = <<>>
            ELSE /\ ran.err = NoErr
                 /\ IF collector(ran.t).Delta
                    THEN /\ Len(ran.profs) = 2
                         /\ ran.profs[1] = plain
                         /\ ran.profs[2].name = "delta-" \o Filename(ran.t)
                    ELSE ran.profs = << plain >>

C14_Witness ==
    /\ ran.run
    /\ ran.t = "block"
    /\ ran.err = NoErr
    /\ Len(ran.profs) = 2
    /\ ran.profs[1] = [nil |-> FALSE, name |-> "block.pprof", data |-> << PprofMagic, 2, 0, 1 >>]
    /\ ran.profs[2].name = "delta-block.pprof"
    /\ ~prev["block"].nil

\* C15: every span a wrapper has finished has an operation name that is not
\* empty, and spans finished by different wrappers have different operation
\* names.
C15_OperationNames ==
    \A i \in 1..Len(rets) :
        /\ spans[i].operation # ""
        /\ \A j \in 1..Len(rets) :
              nsqd[i].method # nsqd[j].method => spans[i].operation # spans[j].operation

=============================================================================
